---- MODULE Spec2Model ----
(***************************************************************************)
(* Data_Bleed chat backend (src/main.py): the in-memory session store, the *)
(* /api/chat and /api/reset handlers, persona selection, and the           *)
(* Trust/Outcome engine decide_outcome_and_update.                         *)
(*                                                                         *)
(* Text is modelled as sequences of one-character strings so that          *)
(* str.lower(), str.strip() and the substring test `k in t` are computed.  *)
(* Session identifiers are only compared and measured, so they stay        *)
(* TLA+ strings.                                                           *)
(***************************************************************************)
EXTENDS Integers, Sequences, FiniteSets, TLC

\* ---------------------------------------------------------------- bounds
\* Number of requests the server may have accepted at the same time.
NumSlots == 2
\* Cap on the Success- and on the Fail-classified chats counted per session.
MaxCount == 2
\* Cap on the calls of decide_outcome_and_update made on one harness session.
MaxCalls == 5

Slots == 1..NumSlots

\* ------------------------------------------------------------------ text
UpperToLower ==
  [A |-> "a", B |-> "b", C |-> "c", D |-> "d", E |-> "e", F |-> "f", G |-> "g",
   H |-> "h", I |-> "i", J |-> "j", K |-> "k", L |-> "l", M |-> "m", N |-> "n",
   O |-> "o", P |-> "p", Q |-> "q", R |-> "r", S |-> "s", T |-> "t", U |-> "u",
   V |-> "v", W |-> "w", X |-> "x", Y |-> "y", Z |-> "z"]

\* str.lower()
lower(s) ==
  [i \in 1..Len(s) |-> IF s[i] \in DOMAIN UpperToLower THEN UpperToLower[s[i]] ELSE s[i]]

Whitespace == {" "}

RECURSIVE lstrip(_)
lstrip(s) ==
  IF s # <<>> /\ Head(s) \in Whitespace THEN lstrip(Tail(s)) ELSE s

RECURSIVE rstrip(_)
rstrip(s) ==
  IF s # <<>> /\ s[Len(s)] \in Whitespace THEN rstrip(SubSeq(s, 1, Len(s) - 1)) ELSE s

\* str.strip()
strip(s) == rstrip(lstrip(s))

\* Python's `k in t` on strings
IsSubstring(k, t) ==
  \E i \in 0..(Len(t) - Len(k)) : SubSeq(t, i + 1, i + Len(k)) = k

contains_any(text, keywords) ==
  LET t == lower(text)
  IN  \E j \in 1..Len(keywords) : IsSubstring(lower(keywords[j]), t)

\* --------------------------------------------------------------- catalog
maya == <<"m", "a", "y", "a">>
eli == <<"e", "l", "i">>
stanley == <<"s", "t", "a", "n", "l", "e", "y">>

sorry == <<"s", "o", "r", "r", "y">>
click_here == <<"c", "l", "i", "c", "k", " ", "h", "e", "r", "e">>
report == <<"r", "e", "p", "o", "r", "t">>
buy == <<"b", "u", "y">>
global_knowledge ==
  <<"g", "l", "o", "b", "a", "l", "_", "k", "n", "o", "w", "l", "e", "d", "g", "e">>

\* The content of characters.json: maya carries the thresholds of the
\* documented scenario, eli fails on the first wrong answer, stanley has no
\* "thresholds" key and falls back on the defaults of decide_outcome_and_update.
\* The file's "global_knowledge" entry (read by GLOBAL_KNOWLEDGE) is one more
\* key of the same dict, without intent rules.
characters_json ==
  (maya :> [intent_rules |-> [success_keywords |-> <<sorry>>,
                              fail_keywords |-> <<click_here>>],
            thresholds |-> [warn_after |-> 2, fail_after |-> 4]])
  @@ (eli :> [intent_rules |-> [success_keywords |-> <<report, sorry>>,
                                fail_keywords |-> <<buy>>],
              thresholds |-> [warn_after |-> 1, fail_after |-> 1]])
  @@ (stanley :> [intent_rules |-> [success_keywords |-> <<report>>,
                                    fail_keywords |-> <<buy, click_here>>]])
  @@ (global_knowledge :> [observers |-> <<"l", "o", "r", "e">>])

\* The startup load: the file's content when one of CHAR_PATHS exists, and
\* the empty dict when load_json_from_candidates raises.
load_json_from_candidates(found) == IF found THEN characters_json ELSE <<>>

DefaultThresholds == [warn_after |-> 2, fail_after |-> 4]

\* dict.get(key, default)
Get(d, key, default) == IF key \in DOMAIN d THEN d[key] ELSE default

\* d[key] = value
Put(d, key, value) ==
  [k \in DOMAIN d \cup {key} |-> IF k = key THEN value ELSE d[k]]

\* --------------------------------------------------------- session store
\* A new session dict that does not record the character it was made for.
FreshSessionUnbound(character) ==
  [character |-> <<>>, wrong_count |-> 0, logo_stage |-> 1]

FreshSession(character) ==
  [character |-> character, wrong_count |-> 0, logo_stage |-> 1]

\* get_session that stores a new dict on every call.
get_session_recreates(store, session_id, character) ==
  Put(store, session_id, FreshSession(character))

\* get_session whose character switch rebinds the dict in place and keeps
\* its other keys.
get_session_rebind_in_place(store, session_id, character) ==
  LET created == IF session_id \notin DOMAIN store
                 THEN Put(store, session_id, FreshSession(character))
                 ELSE store
  IN  IF created[session_id].character # character
      THEN Put(created, session_id, Put(created[session_id], "character", character))
      ELSE created

\* `get_session` as a function of the store: the store it leaves behind; the
\* dict it returns is the entry under session_id of that store.
get_session(store, session_id, character) ==
  LET created == IF session_id \notin DOMAIN store
                 THEN Put(store, session_id, FreshSession(character))
                 ELSE store
  IN  IF created[session_id].character # character
      THEN Put(created, session_id, FreshSession(character))
      ELSE created

\* session_state.pop(sessionId, None)
Pop(store, session_id) ==
  [k \in DOMAIN store \ {session_id} |-> store[k]]

\* ---------------------------------------------------- trust/outcome engine
\* max(0, n) of the Success branch, implemented without the floor.
MaxNoFloor(a, b) == b

\* Python's max(a, b) as used by `max(0, wrong_count - 1)`
Max(a, b) == IF a >= b THEN a ELSE b

\* min(5, n) of the stage increments, implemented without the cap.
MinNoCap(a, b) == b

\* Python's min(a, b) as used by `min(5, logo_stage + 1)`
Min(a, b) == IF a <= b THEN a ELSE b

\* The threshold test with > in place of >=.
ThresholdOutcomeStrict(wrong_count, thresholds) ==
  IF wrong_count > Get(thresholds, "fail_after", 4) THEN "fail" ELSE "neutral"

\* `if session["wrong_count"] >= thresholds.get("fail_after", 4): return "fail"`
\* followed by `return "neutral"`, as written in the Fail and fallback branches.
ThresholdOutcome(wrong_count, thresholds) ==
  IF wrong_count >= Get(thresholds, "fail_after", 4) THEN "fail" ELSE "neutral"

\* The engine whose Fail branch raises logo_stage only from warn_after on.
decide_outcome_and_update_fail_gated(session, char_cfg, user_msg, used_ai_fallback) ==
  LET rules == Get(char_cfg, "intent_rules", <<>>)
      thresholds == Get(char_cfg, "thresholds", DefaultThresholds)
      wc == Get(session, "wrong_count", 0)
      stage == Get(session, "logo_stage", 1)
  IN  IF contains_any(user_msg, Get(rules, "success_keywords", <<>>))
      THEN [session |-> Put(Put(session, "wrong_count", Max(0, wc - 1)), "logo_stage", 1),
            outcome |-> "success"]
      ELSE IF contains_any(user_msg, Get(rules, "fail_keywords", <<>>))
      THEN [session |-> IF wc + 1 >= Get(thresholds, "warn_after", 2)
                        THEN Put(Put(session, "wrong_count", wc + 1),
                                 "logo_stage", Min(5, stage + 1))
                        ELSE Put(session, "wrong_count", wc + 1),
            outcome |-> ThresholdOutcome(wc + 1, thresholds)]
      ELSE IF used_ai_fallback
      THEN [session |-> IF wc + 1 >= Get(thresholds, "warn_after", 2)
                        THEN Put(Put(session, "wrong_count", wc + 1),
                                 "logo_stage", Min(5, stage + 1))
                        ELSE Put(session, "wrong_count", wc + 1),
            outcome |-> ThresholdOutcome(wc + 1, thresholds)]
      ELSE [session |-> session, outcome |-> "neutral"]

\* The engine whose Success branch sets wrong_count to 0.
decide_outcome_and_update_success_clears(session, char_cfg, user_msg, used_ai_fallback) ==
  LET rules == Get(char_cfg, "intent_rules", <<>>)
      thresholds == Get(char_cfg, "thresholds", DefaultThresholds)
      wc == Get(session, "wrong_count", 0)
      stage == Get(session, "logo_stage", 1)
  IN  IF contains_any(user_msg, Get(rules, "success_keywords", <<>>))
      THEN [session |-> Put(Put(session, "wrong_count", 0), "logo_stage", 1),
            outcome |-> "success"]
      ELSE IF contains_any(user_msg, Get(rules, "fail_keywords", <<>>))
      THEN [session |-> Put(Put(session, "wrong_count", wc + 1),
                            "logo_stage", Min(5, stage + 1)),
            outcome |-> ThresholdOutcome(wc + 1, thresholds)]
      ELSE IF used_ai_fallback
      THEN [session |-> IF wc + 1 >= Get(thresholds, "warn_after", 2)
                        THEN Put(Put(session, "wrong_count", wc + 1),
                                 "logo_stage", Min(5, stage + 1))
                        ELSE Put(session, "wrong_count", wc + 1),
            outcome |-> ThresholdOutcome(wc + 1, thresholds)]
      ELSE [session |-> session, outcome |-> "neutral"]

\* The engine whose fallback branch raises logo_stage on every call.
decide_outcome_and_update_fallback_ungated(session, char_cfg, user_msg, used_ai_fallback) ==
  LET rules == Get(char_cfg, "intent_rules", <<>>)
      thresholds == Get(char_cfg, "thresholds", DefaultThresholds)
      wc == Get(session, "wrong_count", 0)
      stage == Get(session, "logo_stage", 1)
  IN  IF contains_any(user_msg, Get(rules, "success_keywords", <<>>))
      THEN [session |-> Put(Put(session, "wrong_count", Max(0, wc - 1)), "logo_stage", 1),
            outcome |-> "success"]
      ELSE IF contains_any(user_msg, Get(rules, "fail_keywords", <<>>))
      THEN [session |-> Put(Put(session, "wrong_count", wc + 1),
                            "logo_stage", Min(5, stage + 1)),
            outcome |-> ThresholdOutcome(wc + 1, thresholds)]
      ELSE IF used_ai_fallback
      THEN [session |-> Put(Put(session, "wrong_count", wc + 1),
                            "logo_stage", Min(5, stage + 1)),
            outcome |-> ThresholdOutcome(wc + 1, thresholds)]
      ELSE [session |-> session, outcome |-> "neutral"]

\* The engine whose last branch applies the fail_after test to the stored
\* wrong_count.
decide_outcome_and_update_neutral_checks(session, char_cfg, user_msg, used_ai_fallback) ==
  LET rules == Get(char_cfg, "intent_rules", <<>>)
      thresholds == Get(char_cfg, "thresholds", DefaultThresholds)
      wc == Get(session, "wrong_count", 0)
      stage == Get(session, "logo_stage", 1)
  IN  IF contains_any(user_msg, Get(rules, "success_keywords", <<>>))
      THEN [session |-> Put(Put(session, "wrong_count", Max(0, wc - 1)), "logo_stage", 1),
            outcome |-> "success"]
      ELSE IF contains_any(user_msg, Get(rules, "fail_keywords", <<>>))
      THEN [session |-> Put(Put(session, "wrong_count", wc + 1),
                            "logo_stage", Min(5, stage + 1)),
            outcome |-> ThresholdOutcome(wc + 1, thresholds)]
      ELSE IF used_ai_fallback
      THEN [session |-> IF wc + 1 >= Get(thresholds, "warn_after", 2)
                        THEN Put(Put(session, "wrong_count", wc + 1),
                                 "logo_stage", Min(5, stage + 1))
                        ELSE Put(session, "wrong_count", wc + 1),
            outcome |-> ThresholdOutcome(wc + 1, thresholds)]
      ELSE [session |-> session, outcome |-> ThresholdOutcome(wc, thresholds)]

\* The engine that counts one more wrong answer once the session's
\* trust_score has reached 20.
decide_outcome_and_update_trust_coupled(session, char_cfg, user_msg, used_ai_fallback) ==
  LET rules == Get(char_cfg, "intent_rules", <<>>)
      thresholds == Get(char_cfg, "thresholds", DefaultThresholds)
      wrong == Get(session, "wrong_count", 0)
      wc == IF Get(session, "trust_score", 0) >= 20 THEN wrong + 1 ELSE wrong
      stage == Get(session, "logo_stage", 1)
  IN  IF contains_any(user_msg, Get(rules, "success_keywords", <<>>))
      THEN [session |-> Put(Put(session, "wrong_count", Max(0, wc - 1)), "logo_stage", 1),
            outcome |-> "success"]
      ELSE IF contains_any(user_msg, Get(rules, "fail_keywords", <<>>))
      THEN [session |-> Put(Put(session, "wrong_count", wc + 1),
                            "logo_stage", Min(5, stage + 1)),
            outcome |-> ThresholdOutcome(wc + 1, thresholds)]
      ELSE IF used_ai_fallback
      THEN [session |-> IF wc + 1 >= Get(thresholds, "warn_after", 2)
                        THEN Put(Put(session, "wrong_count", wc + 1),
                                 "logo_stage", Min(5, stage + 1))
                        ELSE Put(session, "wrong_count", wc + 1),
            outcome |-> ThresholdOutcome(wc + 1, thresholds)]
      ELSE [session |-> session, outcome |-> "neutral"]

\* Returns the updated session dict and the outcome label.
decide_outcome_and_update(session, char_cfg, user_msg, used_ai_fallback) ==
  LET rules == Get(char_cfg, "intent_rules", <<>>)
      thresholds == Get(char_cfg, "thresholds", DefaultThresholds)
      wc == Get(session, "wrong_count", 0)
      stage == Get(session, "logo_stage", 1)
  IN  IF contains_any(user_msg, Get(rules, "success_keywords", <<>>))
      THEN [session |-> Put(Put(session, "wrong_count", Max(0, wc - 1)), "logo_stage", 1),
            outcome |-> "success"]
      ELSE IF contains_any(user_msg, Get(rules, "fail_keywords", <<>>))
      THEN [session |-> Put(Put(session, "wrong_count", wc + 1),
                            "logo_stage", Min(5, stage + 1)),
            outcome |-> ThresholdOutcome(wc + 1, thresholds)]
      ELSE IF used_ai_fallback
      THEN [session |-> IF wc + 1 >= Get(thresholds, "warn_after", 2)
                        THEN Put(Put(session, "wrong_count", wc + 1),
                                 "logo_stage", Min(5, stage + 1))
                        ELSE Put(session, "wrong_count", wc + 1),
            outcome |-> ThresholdOutcome(wc + 1, thresholds)]
      ELSE [session |-> session, outcome |-> "neutral"]

\* ------------------------------------------------------------------ chat
\* The trust_score update with the fail keywords tested first.
TrustDeltaFailFirst(char_cfg, user_message) ==
  LET rules == Get(char_cfg, "intent_rules", <<>>)
  IN  IF contains_any(user_message, Get(rules, "fail_keywords", <<>>)) THEN 20
      ELSE IF contains_any(user_message, Get(rules, "success_keywords", <<>>)) THEN 0 - 20
      ELSE 0

\* The trust_score update of chat: -20 on a success keyword, else +20 on a
\* fail keyword, else 0.
TrustDelta(char_cfg, user_message) ==
  LET rules == Get(char_cfg, "intent_rules", <<>>)
  IN  IF contains_any(user_message, Get(rules, "success_keywords", <<>>)) THEN 0 - 20
      ELSE IF contains_any(user_message, Get(rules, "fail_keywords", <<>>)) THEN 20
      ELSE 0

\* The new trust_score kept within -20..20.
UpdatedTrustClamped(trust_score, char_cfg, user_message) ==
  LET t == trust_score + TrustDelta(char_cfg, user_message)
  IN  IF t > 20 THEN 20 ELSE IF t < 0 - 20 THEN 0 - 20 ELSE t

\* The value chat writes to session["trust_score"]: the value read plus the
\* step, without clamp.
UpdatedTrust(trust_score, char_cfg, user_message) ==
  trust_score + TrustDelta(char_cfg, user_message)

SelectPersona(trust_score) ==
  IF trust_score >= 0 THEN "deceiver" ELSE "guardian"

\* ------------------------------------------------- generation orchestrator
NoneReply == [kind |-> "None"]

\* A slice that does not truncate.
PrefixWhole(s, n) == s

\* s[:n]
Prefix(s, n) == SubSeq(s, 1, IF Len(s) < n THEN Len(s) ELSE n)

NamedCharacters == {maya, eli, stanley}

\* The four error fallbacks share one shape: a per-character template that
\* quotes user_message[:30], or a fixed generic text for any other character.
ErrorFallback(kind, character, user_message) ==
  IF character \in NamedCharacters
  THEN [kind |-> kind, who |-> character, echo |-> Prefix(user_message, 30)]
  ELSE [kind |-> kind, who |-> <<>>, echo |-> <<>>]

get_rate_limit_fallback(character, user_message) ==
  ErrorFallback("rate_limit", character, user_message)

get_connection_fallback(character, user_message) ==
  ErrorFallback("connection", character, user_message)

get_invalid_request_fallback(character, user_message) ==
  ErrorFallback("invalid_request", character, user_message)

get_generic_ai_fallback(character, user_message) ==
  ErrorFallback("generic", character, user_message)

get_demo_mode_response(character, user_message) ==
  IF character \in NamedCharacters
  THEN [kind |-> "demo", who |-> character, echo |-> Prefix(user_message, 50)]
  ELSE [kind |-> "demo", who |-> <<>>, echo |-> <<>>]

rate_limit == <<"r", "a", "t", "e", " ", "l", "i", "m", "i", "t">>
timeout == <<"t", "i", "m", "e", "o", "u", "t">>
connection == <<"c", "o", "n", "n", "e", "c", "t", "i", "o", "n">>
invalid == <<"i", "n", "v", "a", "l", "i", "d">>

\* What client.chat.completions.create can do: return a completion whose
\* message content is text or None, or raise with some error text.
ModelResults ==
  { [raised |-> FALSE, content |-> [kind |-> "model", text |-> <<"o", "k">>]],
    [raised |-> FALSE, content |-> NoneReply],
    [raised |-> TRUE, error |-> <<"R", "a", "t", "e", " ", "l", "i", "m", "i", "t">>],
    [raised |-> TRUE, error |-> <<"4", "2", "9", " ">> \o timeout],
    [raised |-> TRUE, error |-> timeout \o <<" ">> \o invalid],
    [raised |-> TRUE, error |-> <<"4", "0", "0">>],
    [raised |-> TRUE, error |-> <<"b", "o", "o", "m">>] }

\* The model call attempted whether or not a client was built.
AttemptsCallAlways(has_client) == TRUE

\* `if client:` - the call is attempted only with a client.
AttemptsCall(has_client) == has_client

\* generate_ai_response whose last branch lets an unmatched error escape to
\* the caller instead of answering with the generic fallback.
generate_ai_response_reraises(has_client, result, character, user_message) ==
  IF AttemptsCall(has_client)
  THEN IF ~result.raised
       THEN result.content
       ELSE LET error_str == lower(result.error)
            IN  IF IsSubstring(rate_limit, error_str) \/ IsSubstring(<<"4", "2", "9">>, error_str)
                THEN get_rate_limit_fallback(character, user_message)
                ELSE IF IsSubstring(timeout, error_str) \/ IsSubstring(connection, error_str)
                THEN get_connection_fallback(character, user_message)
                ELSE IF IsSubstring(invalid, error_str) \/ IsSubstring(<<"4", "0", "0">>, error_str)
                THEN get_invalid_request_fallback(character, user_message)
                ELSE NoneReply
  ELSE get_demo_mode_response(character, user_message)

\* generate_ai_response with the connection/timeout test ahead of the
\* rate-limit test.
generate_ai_response_connection_first(has_client, result, character, user_message) ==
  IF AttemptsCall(has_client)
  THEN IF ~result.raised
       THEN result.content
       ELSE LET error_str == lower(result.error)
            IN  IF IsSubstring(timeout, error_str) \/ IsSubstring(connection, error_str)
                THEN get_connection_fallback(character, user_message)
                ELSE IF IsSubstring(rate_limit, error_str) \/ IsSubstring(<<"4", "2", "9">>, error_str)
                THEN get_rate_limit_fallback(character, user_message)
                ELSE IF IsSubstring(invalid, error_str) \/ IsSubstring(<<"4", "0", "0">>, error_str)
                THEN get_invalid_request_fallback(character, user_message)
                ELSE get_generic_ai_fallback(character, user_message)
  ELSE get_demo_mode_response(character, user_message)

generate_ai_response(has_client, result, character, user_message) ==
  IF AttemptsCall(has_client)
  THEN IF ~result.raised
       THEN result.content
       ELSE LET error_str == lower(result.error)
            IN  IF IsSubstring(rate_limit, error_str) \/ IsSubstring(<<"4", "2", "9">>, error_str)
                THEN get_rate_limit_fallback(character, user_message)
                ELSE IF IsSubstring(timeout, error_str) \/ IsSubstring(connection, error_str)
                THEN get_connection_fallback(character, user_message)
                ELSE IF IsSubstring(invalid, error_str) \/ IsSubstring(<<"4", "0", "0">>, error_str)
                THEN get_invalid_request_fallback(character, user_message)
                ELSE get_generic_ai_fallback(character, user_message)
  ELSE get_demo_mode_response(character, user_message)

\* What the handler saw of the model call: its result, or NotCalled when the
\* call was not attempted.
NotCalled == [called |-> FALSE]

CallResult(has_client, result) ==
  IF AttemptsCall(has_client) THEN result ELSE NotCalled

\* ---------------------------------------------------------------- inputs
\* The trust_score values given to the engine next to a session without one.
TrustValues == {0 - 20, 40}

MaxSessionIdLen == 100
MaxMessageLen == 1000

LongSid == "sssssssssssssssssssssssssssssssssssssssssssssssssssssssssssssssssssssssssssssssssssssssssssssssssssss"

\* req.sessionId / the sessionId query parameter ("" stands for an absent or
\* empty value).
SidInputs == {"", LongSid}
ResetSidInputs == {"", "default", LongSid}

CharInputs ==
  { maya, <<" ", "M", "a", "y", "a", " ">>, eli, global_knowledge,
    <<"z", "e", "d">>, <<>> }

\* A message of 60 characters, longer than both echo lengths.
LongMessage ==
  [i \in 1..60 |-> IF i <= 30 THEN "a" ELSE IF i <= 50 THEN "b" ELSE "c"]

\* A message of 1001 characters.
OversizedMessage == [i \in 1..(MaxMessageLen + 1) |-> "x"]

MsgInputs ==
  { <<"C", "l", "i", "c", "k", " ", "H", "e", "r", "e">>,
    <<"S", "o", "r", "r", "y", " ">>,
    sorry \o <<" ">> \o click_here,
    buy \o <<" ">> \o report,
    <<"h", "i">>,
    <<" ">>,
    LongMessage,
    OversizedMessage }

\* ----------------------------------------------------------------- state
VARIABLES
  CHARACTERS,     \* the module-level catalog dict loaded at startup
  session_state,  \* the module-level dict session_id -> session dict
  client,         \* whether an OpenAI client was built at startup
  running,        \* the request whose handler holds the event loop (0: none)
  pc,             \* per request: position in its handler
  loc,            \* per request: the handler's local variables
  resp,           \* per request: the response it produced
  hist,           \* per session: chats committed since it was (re)created
  eng             \* the engine harness: a session driven by decide_outcome_and_update

vars == <<CHARACTERS, session_state, client, running, pc, loc, resp, hist, eng>>

NoSession == [character |-> <<>>]
NoLocals == [op |-> "none"]
NoResponse == [op |-> "none"]
EngOff == [on |-> FALSE]

\* A handler that awaits something suspending between reading trust_score
\* and writing it back.
SuspendsAfterRead(p) == p = "read"

\* Whether a handler that has reached position p gives the event loop to
\* other requests there.  chat and reset_session are coroutines without a
\* suspending await: generate_ai_response is awaited, but it calls the
\* blocking client and has no await of its own.
Suspends(p) == FALSE

Sched(r, p) == IF Suspends(p) THEN 0 ELSE r

MayRun(r) == running \in {0, r}

InitChat ==
  /\ \E found \in BOOLEAN : CHARACTERS = load_json_from_candidates(found)
  /\ session_state = <<>>
  /\ client \in BOOLEAN
  /\ running = 0
  /\ pc = [r \in Slots |-> "idle"]
  /\ loc = [r \in Slots |-> NoLocals]
  /\ resp = [r \in Slots |-> NoResponse]
  /\ hist = <<>>

Init == InitChat /\ eng = EngOff

\* ------------------------------------------------------------ /api/chat
\* The character field as sent, instead of lowercased and trimmed.
ChatCharacterAsSent(req) == req.character

\* character = (req.character or "").lower().strip()
ChatCharacter(req) == strip(lower(req.character))
ChatMessage(req) == strip(req.message)
ChatSessionId(req) == IF req.sessionId = "" THEN "default" ELSE req.sessionId

ChatRequests == [character : CharInputs, message : MsgInputs, sessionId : SidInputs]

\* The validation without the length test.
ChatValidationErrorNoLength(req) ==
  IF ChatCharacter(req) = <<>> THEN "Character is required"
  ELSE IF ChatCharacter(req) \notin DOMAIN CHARACTERS THEN "Unknown character"
  ELSE IF ChatMessage(req) = <<>> THEN "Message cannot be empty"
  ELSE ""

\* The validation at the top of chat; "" when the request passes.
ChatValidationError(req) ==
  IF ChatCharacter(req) = <<>> THEN "Character is required"
  ELSE IF ChatCharacter(req) \notin DOMAIN CHARACTERS THEN "Unknown character"
  ELSE IF ChatMessage(req) = <<>> THEN "Message cannot be empty"
  ELSE IF Len(ChatMessage(req)) > MaxMessageLen THEN "Message too long"
  ELSE ""

HistOf(h, sid) == IF sid \in DOMAIN h THEN h[sid] ELSE [success |-> 0, fail |-> 0]

\* The ghost counts follow get_session: a created or rebound session starts
\* at zero.
HistAfterGet(store, sid, character) ==
  IF sid \in DOMAIN store /\ store[sid].character = character
  THEN HistOf(hist, sid)
  ELSE [success |-> 0, fail |-> 0]

ChatReject(r, req) ==
  /\ running = 0 /\ pc[r] = "idle"
  /\ ChatValidationError(req) # ""
  /\ pc' = [pc EXCEPT ![r] = "done"]
  /\ running' = r
  /\ resp' = [resp EXCEPT ![r] = [op |-> "chat", status |-> 400,
                                  detail |-> ChatValidationError(req)]]
  /\ loc' = [loc EXCEPT ![r] = [op |-> "chat", rejected |-> TRUE, req |-> req]]
  /\ UNCHANGED <<CHARACTERS, session_state, client, hist, eng>>

\* chat up to `trust_score = session.get("trust_score", 0)`
ChatBegin(r, req) ==
  /\ running = 0 /\ pc[r] = "idle"
  /\ ChatValidationError(req) = ""
  /\ LET character == ChatCharacter(req)
         user_message == ChatMessage(req)
         session_id == ChatSessionId(req)
         store == get_session(session_state, session_id, character)
         h == HistAfterGet(session_state, session_id, character)
         d == TrustDelta(CHARACTERS[character], user_message)
     IN  /\ d < 0 => h.success < MaxCount
         /\ d > 0 => h.fail < MaxCount
         /\ session_state' = store
         /\ hist' = Put(hist, session_id, h)
         /\ loc' = [loc EXCEPT ![r] =
                      [op |-> "chat", rejected |-> FALSE, req |-> req,
                       character |-> character,
                       user_message |-> user_message,
                       session_id |-> session_id,
                       trust_score |-> Get(store[session_id], "trust_score", 0),
                       persona |-> "",
                       reply_text |-> NoneReply,
                       result |-> NotCalled,
                       prior |-> IF session_id \in DOMAIN session_state
                                 THEN session_state[session_id] ELSE NoSession]]
  /\ pc' = [pc EXCEPT ![r] = "read"]
  /\ running' = Sched(r, "read")
  /\ UNCHANGED <<CHARACTERS, client, resp, eng>>

\* chat whose write of trust_score to the session is left for after the
\* generation call.
ChatUpdateNoCommit(r) ==
  /\ MayRun(r) /\ pc[r] = "read"
  /\ LET l == loc[r]
         trust_score == UpdatedTrust(l.trust_score, CHARACTERS[l.character], l.user_message)
     IN  loc' = [loc EXCEPT ![r] =
                   [l EXCEPT !.trust_score = trust_score,
                             !.persona = SelectPersona(trust_score)]]
  /\ pc' = [pc EXCEPT ![r] = "generating"]
  /\ running' = Sched(r, "generating")
  /\ UNCHANGED <<CHARACTERS, session_state, hist, client, resp, eng>>

\* chat from the intent rules to build_system_prompt: the trust_score is
\* written back to the session dict and the persona is selected.
ChatUpdate(r) ==
  /\ MayRun(r) /\ pc[r] = "read"
  /\ LET l == loc[r]
         d == TrustDelta(CHARACTERS[l.character], l.user_message)
         trust_score == UpdatedTrust(l.trust_score, CHARACTERS[l.character], l.user_message)
         h == HistOf(hist, l.session_id)
     IN  /\ session_state' =
               [k \in DOMAIN session_state |->
                  IF k = l.session_id
                  THEN Put(session_state[k], "trust_score", trust_score)
                  ELSE session_state[k]]
         /\ hist' = [k \in DOMAIN hist |->
                       IF k = l.session_id
                       THEN [success |-> h.success + (IF d < 0 THEN 1 ELSE 0),
                             fail |-> h.fail + (IF d > 0 THEN 1 ELSE 0)]
                       ELSE hist[k]]
         /\ loc' = [loc EXCEPT ![r] =
                      [l EXCEPT !.trust_score = trust_score,
                                !.persona = SelectPersona(trust_score)]]
  /\ pc' = [pc EXCEPT ![r] = "generating"]
  /\ running' = Sched(r, "generating")
  /\ UNCHANGED <<CHARACTERS, client, resp, eng>>

\* reply_text = await generate_ai_response(...)
ChatGenerate(r, result) ==
  /\ MayRun(r) /\ pc[r] = "generating"
  /\ loc' = [loc EXCEPT ![r] =
               [loc[r] EXCEPT !.reply_text =
                  generate_ai_response(client, result, loc[r].character,
                                       loc[r].user_message),
                               !.result = CallResult(client, result)]]
  /\ pc' = [pc EXCEPT ![r] = "replied"]
  /\ running' = Sched(r, "replied")
  /\ UNCHANGED <<CHARACTERS, session_state, client, resp, hist, eng>>

LastResortReply == [kind |-> "last_resort"]

\* The response of chat once reply_text is known: len(reply_text) raises on
\* None, and `except Exception` answers with the last-resort body.
ChatResponse(reply_text, trust_score, persona) ==
  IF reply_text = NoneReply
  THEN [reply |-> LastResortReply, trust_score |-> 0, persona |-> "guardian",
        error |-> "Technical difficulties"]
  ELSE [reply |-> reply_text, trust_score |-> trust_score, persona |-> persona]

ChatRespond(r) ==
  /\ MayRun(r) /\ pc[r] = "replied"
  /\ resp' = [resp EXCEPT ![r] =
                [op |-> "chat", status |-> 200,
                 body |-> ChatResponse(loc[r].reply_text, loc[r].trust_score,
                                       loc[r].persona)]]
  /\ pc' = [pc EXCEPT ![r] = "done"]
  /\ running' = r
  /\ UNCHANGED <<CHARACTERS, session_state, client, loc, hist, eng>>

\* ----------------------------------------------------------- /api/reset
ResetValid(sessionId) == sessionId # "" /\ Len(sessionId) <= MaxSessionIdLen

\* reset_session that reports the session but does not remove it.
reset_session_no_pop(store, sessionId) ==
  [session_existed |-> sessionId \in DOMAIN store, store |-> store]

\* The body of reset_session for a valid sessionId: the flag it reports and
\* the store it leaves.
reset_session(store, sessionId) ==
  [session_existed |-> sessionId \in DOMAIN store, store |-> Pop(store, sessionId)]

Reset(r, sessionId) ==
  /\ running = 0 /\ pc[r] = "idle"
  /\ IF ResetValid(sessionId)
     THEN LET res == reset_session(session_state, sessionId)
          IN  /\ session_state' = res.store
              /\ hist' = Pop(hist, sessionId)
              /\ resp' = [resp EXCEPT ![r] =
                            [op |-> "reset", status |-> 200,
                             body |-> [ok |-> TRUE, session_id |-> sessionId,
                                       session_existed |-> res.session_existed]]]
     ELSE /\ resp' = [resp EXCEPT ![r] = [op |-> "reset", status |-> 400,
                                          detail |-> "Invalid session ID"]]
          /\ UNCHANGED <<session_state, hist>>
  /\ loc' = [loc EXCEPT ![r] = [op |-> "reset", sessionId |-> sessionId]]
  /\ pc' = [pc EXCEPT ![r] = "done"]
  /\ running' = r
  /\ UNCHANGED <<CHARACTERS, client, eng>>

\* ------------------------------------------------------ /api/characters
\* list_characters that answers with the key list whatever it holds.
list_characters_always_lists(catalog) ==
  [op |-> "characters", status |-> 200,
   body |-> [characters |-> DOMAIN catalog, count |-> Cardinality(DOMAIN catalog)]]

\* The answer of list_characters: `if not CHARACTERS` raises the 503, else
\* the keys and their count are returned.
list_characters(catalog) ==
  IF DOMAIN catalog = {}
  THEN [op |-> "characters", status |-> 503,
        detail |-> "Character configuration not loaded"]
  ELSE [op |-> "characters", status |-> 200,
        body |-> [characters |-> DOMAIN catalog, count |-> Cardinality(DOMAIN catalog)]]

ListCharacters(r) ==
  /\ running = 0 /\ pc[r] = "idle"
  /\ resp' = [resp EXCEPT ![r] = list_characters(CHARACTERS)]
  /\ loc' = [loc EXCEPT ![r] = [op |-> "characters"]]
  /\ pc' = [pc EXCEPT ![r] = "done"]
  /\ running' = r
  /\ UNCHANGED <<CHARACTERS, session_state, client, hist, eng>>

\* The response leaves the server and the request is over.
Return(r) ==
  /\ running = r /\ pc[r] = "done"
  /\ pc' = [pc EXCEPT ![r] = "idle"]
  /\ loc' = [loc EXCEPT ![r] = NoLocals]
  /\ resp' = [resp EXCEPT ![r] = NoResponse]
  /\ running' = 0
  /\ UNCHANGED <<CHARACTERS, session_state, client, hist, eng>>

Next ==
  \/ \E r \in Slots, req \in ChatRequests : ChatReject(r, req)
  \/ \E r \in Slots, req \in ChatRequests : ChatBegin(r, req)
  \/ \E r \in Slots : ChatUpdate(r)
  \/ \E r \in Slots, result \in ModelResults : ChatGenerate(r, result)
  \/ \E r \in Slots : ChatRespond(r)
  \/ \E r \in Slots, sessionId \in ResetSidInputs : Reset(r, sessionId)
  \/ \E r \in Slots : ListCharacters(r)
  \/ \E r \in Slots : Return(r)

Spec == Init /\ [][Next]_vars

\* --------------------------------------------------------- engine harness
\* decide_outcome_and_update driven directly: a session obtained from
\* get_session receives any sequence of messages, with and without the
\* fallback flag.  Each call is logged with the session before and after it,
\* and with what the function returns for the same arguments when the session
\* also holds a trust_score, as it does once chat has written one.
\* The messages are the short ones chat lets through (the long ones hold no
\* keyword, like "hi"), and one that holds a fail keyword of eli and no
\* success keyword.
EngineMessages ==
  {m \in {strip(x) : x \in (MsgInputs \ {LongMessage, OversizedMessage}) \cup {buy}} :
     m # <<>>}

EngineFresh(character) ==
  [on |-> TRUE, character |-> character,
   session |-> get_session(<<>>, "default", character)["default"],
   calls |-> <<>>]

InitEngine ==
  /\ CHARACTERS = load_json_from_candidates(TRUE)
  /\ session_state = <<>>
  /\ client = FALSE
  /\ running = 0
  /\ pc = [r \in Slots |-> "idle"]
  /\ loc = [r \in Slots |-> NoLocals]
  /\ resp = [r \in Slots |-> NoResponse]
  /\ hist = <<>>
  /\ \E character \in DOMAIN CHARACTERS : eng = EngineFresh(character)

EngineStep(user_msg, used_ai_fallback) ==
  /\ eng.on /\ Len(eng.calls) < MaxCalls
  /\ LET char_cfg == CHARACTERS[eng.character]
         rules == Get(char_cfg, "intent_rules", <<>>)
         res == decide_outcome_and_update(eng.session, char_cfg, user_msg, used_ai_fallback)
     IN  eng' = [eng EXCEPT
                   !.session = res.session,
                   !.calls = Append(@, [has_success |-> contains_any(user_msg, Get(rules, "success_keywords", <<>>)),
                                        has_fail |-> contains_any(user_msg, Get(rules, "fail_keywords", <<>>)),
                                        used_ai_fallback |-> used_ai_fallback,
                                        outcome |-> res.outcome,
                                        before |-> eng.session,
                                        after |-> res.session,
                                        with_trust |->
                                          [t \in TrustValues |->
                                             decide_outcome_and_update(
                                               Put(eng.session, "trust_score", t),
                                               char_cfg, user_msg, used_ai_fallback)]])]
  /\ UNCHANGED <<CHARACTERS, session_state, client, running, pc, loc, resp, hist>>

\* get_session with another character on the same session id
EngineRebind(character) ==
  /\ eng.on /\ character # eng.character
  /\ eng' = [on |-> TRUE, character |-> character,
             session |-> get_session(("default" :> eng.session), "default", character)["default"],
             calls |-> <<>>]
  /\ UNCHANGED <<CHARACTERS, session_state, client, running, pc, loc, resp, hist>>

NextEngine ==
  \/ \E user_msg \in EngineMessages, used_ai_fallback \in BOOLEAN :
       EngineStep(user_msg, used_ai_fallback)
  \/ \E character \in DOMAIN CHARACTERS : EngineRebind(character)

SpecEngine == InitEngine /\ [][NextEngine]_vars

\* ----------------------------------------------------------------- claims
FallbackKinds == {"demo", "rate_limit", "connection", "invalid_request", "generic"}

\* A chat request that passed validation and whose handler has got its session.
Accepted(r) == pc[r] # "idle" /\ loc[r].op = "chat" /\ ~loc[r].rejected

\* The request found its session id bound to another character.
Rebound(r) ==
  Accepted(r) /\ loc[r].prior # NoSession /\ loc[r].prior.character # loc[r].character

\* The session a chat request starts from: the stored one, or a fresh one when
\* the id was unknown or bound to another character.
StartSession(r) ==
  IF loc[r].prior = NoSession \/ loc[r].prior.character # loc[r].character
  THEN FreshSession(loc[r].character)
  ELSE loc[r].prior

Answered(r) == pc[r] = "done" /\ resp[r].op = "chat" /\ resp[r].status = 200

\* C1: in every chat response, the last-resort fallback response included,
\* the reported persona is "deceiver" exactly when the reported trust score is
\* >= 0 and "guardian" exactly when it is < 0.
C1_PersonaFollowsReportedTrust ==
  \A r \in Slots :
    Answered(r) =>
      /\ (resp[r].body.persona = "deceiver") <=> (resp[r].body.trust_score >= 0)
      /\ (resp[r].body.persona = "guardian") <=> (resp[r].body.trust_score < 0)

\* C2: no trust_score update is lost under concurrent chat requests on one
\* session: no two requests are between their read and their write on the same
\* session, and once every request has completed, each session's trust_score
\* is 20 times its Fail-classified chats minus 20 times its Success-classified
\* chats.
C2_NoLostUpdate ==
  /\ \A r1, r2 \in Slots :
       (r1 # r2 /\ pc[r1] = "read" /\ pc[r2] = "read") =>
         loc[r1].session_id # loc[r2].session_id
  /\ (\A r \in Slots : pc[r] \in {"idle", "done"}) =>
       \A sid \in DOMAIN session_state :
         Get(session_state[sid], "trust_score", 0)
           = 20 * HistOf(hist, sid).fail - 20 * HistOf(hist, sid).success

C2_Witness ==
  /\ \A r \in Slots : pc[r] = "idle"
  /\ \E sid \in DOMAIN session_state :
       /\ hist[sid].fail >= 2 /\ hist[sid].success >= 1
       /\ session_state[sid].trust_score = 20 * hist[sid].fail - 20 * hist[sid].success

\* C3: a chat request naming a session id bound to a different character
\* starts from a fresh session: wrong_count 0, logo_stage 1, trust_score 0, and
\* nothing of the previous binding carries over, so after the update the
\* session's trust_score is this request's own step.
C3_RebindStartsFresh ==
  \A r \in Slots :
    Rebound(r) =>
      LET l == loc[r]
          s == session_state[l.session_id]
      IN  /\ s.character = l.character
          /\ s.wrong_count = 0
          /\ s.logo_stage = 1
          /\ pc[r] = "read" =>
               /\ s = FreshSession(l.character)
               /\ l.trust_score = 0
          /\ pc[r] # "read" =>
               /\ s.trust_score = TrustDelta(CHARACTERS[l.character], l.user_message)
               /\ l.trust_score = s.trust_score

C3_Witness ==
  \E r \in Slots :
    /\ Rebound(r) /\ pc[r] = "generating"
    /\ Get(loc[r].prior, "trust_score", 0) = 40
    /\ session_state[loc[r].session_id].trust_score = 0 - 20

\* C4: every chat response carries an outcome label in {success, fail,
\* neutral}, and the request applied the transition table once: after a
\* Fail-classified message wrong_count is one greater and logo_stage is
\* min(5, stage+1); after a Success-classified message wrong_count is
\* max(0, wrong_count-1) and logo_stage is 1.
C4_ChatAppliesTransitionTable ==
  \A r \in Slots :
    Answered(r) =>
      LET l == loc[r]
          start == StartSession(r)
          after == session_state[l.session_id]
          d == TrustDelta(CHARACTERS[l.character], l.user_message)
      IN  /\ d > 0 => /\ after.wrong_count = start.wrong_count + 1
                      /\ after.logo_stage = Min(5, start.logo_stage + 1)
          /\ d < 0 => /\ after.wrong_count = Max(0, start.wrong_count - 1)
                      /\ after.logo_stage = 1
          /\ "outcome" \in DOMAIN resp[r].body
          /\ resp[r].body.outcome \in {"success", "fail", "neutral"}

\* C5: a chat request answered with a canned fallback reply (demo mode or a
\* failed model call) whose message is Neutral-classified increments the
\* session's wrong_count by 1.
C5_FallbackCountsAsWrong ==
  \A r \in Slots :
    (/\ Answered(r)
     /\ resp[r].body.reply.kind \in FallbackKinds
     /\ TrustDelta(CHARACTERS[loc[r].character], loc[r].user_message) = 0) =>
      session_state[loc[r].session_id].wrong_count = StartSession(r).wrong_count + 1

\* A step in which request r runs reset_session.
ResetStep(r) == pc[r] = "idle" /\ pc'[r] = "done" /\ loc'[r].op = "reset"

OthersUntouched(s) ==
  /\ DOMAIN session_state' \ {s} = DOMAIN session_state \ {s}
  /\ \A t \in DOMAIN session_state \ {s} : session_state'[t] = session_state[t]

\* C6 (as stated): reset of any sessionId s answers existed=true exactly when s
\* was in the store, never with an error, leaves s absent and touches no other
\* session.
C6_ResetAnySessionId ==
  [][\A r \in Slots :
       ResetStep(r) =>
         LET s == loc'[r].sessionId
         IN  /\ resp'[r].status = 200
             /\ resp'[r].body.session_existed <=> (s \in DOMAIN session_state)
             /\ s \notin DOMAIN session_state'
             /\ OthersUntouched(s)]_vars

\* C6 (amended): reset of a non-empty sessionId s of at most 100 characters
\* answers existed=true exactly when s was in the store, leaves s absent and
\* touches no other session; when s was absent the store is unchanged.  An
\* empty or longer sessionId is answered with a client error and the store is
\* unchanged.
C6_ResetValidSessionId ==
  [][\A r \in Slots :
       ResetStep(r) =>
         LET s == loc'[r].sessionId
         IN  IF s # "" /\ Len(s) <= 100
             THEN /\ resp'[r].status = 200
                  /\ resp'[r].body.session_existed <=> (s \in DOMAIN session_state)
                  /\ s \notin DOMAIN session_state'
                  /\ OthersUntouched(s)
                  /\ s \notin DOMAIN session_state => session_state' = session_state
             ELSE /\ resp'[r].status = 400
                  /\ session_state' = session_state]_vars

C6_Witness ==
  \E r \in Slots :
    /\ pc[r] = "done" /\ resp[r].op = "reset" /\ resp[r].status = 200
    /\ resp[r].body.session_existed
    /\ resp[r].body.session_id \notin DOMAIN session_state
    /\ DOMAIN session_state # {}

\* C7: wrong_count is never negative, for any sequence of Success, Fail and
\* Neutral messages with or without fallback; a Success on wrong_count 0
\* leaves it at 0.
C7_WrongCountNeverNegative ==
  eng.on =>
    /\ eng.session.wrong_count >= 0
    /\ \A i \in 1..Len(eng.calls) :
         /\ eng.calls[i].after.wrong_count >= 0
         /\ (eng.calls[i].has_success /\ eng.calls[i].before.wrong_count = 0) =>
              eng.calls[i].after.wrong_count = 0

C7_Witness ==
  /\ eng.on
  /\ \E i \in 1..Len(eng.calls) :
       /\ eng.calls[i].has_success
       /\ eng.calls[i].before.wrong_count = 0
       /\ eng.calls[i].after.wrong_count = 0

\* C8: logo_stage stays within 1..5 for any sequence of inputs (a Fail or
\* fallback step at stage 5 leaves it at 5) and is 1 right after any
\* Success-classified message.
C8_StageWithinBounds ==
  eng.on =>
    /\ eng.session.logo_stage \in 1..5
    /\ \A i \in 1..Len(eng.calls) :
         /\ eng.calls[i].after.logo_stage \in 1..5
         /\ eng.calls[i].has_success => eng.calls[i].after.logo_stage = 1
         /\ eng.calls[i].before.logo_stage = 5 /\ ~eng.calls[i].has_success =>
              eng.calls[i].after.logo_stage = 5

C8_Witness ==
  /\ eng.on
  /\ \E i \in 1..Len(eng.calls) :
       /\ ~eng.calls[i].has_success
       /\ eng.calls[i].has_fail \/ eng.calls[i].used_ai_fallback
       /\ eng.calls[i].before.logo_stage = 5
       /\ eng.calls[i].after.logo_stage = 5

\* The first four calls on the harness session were Fail-classified, for a
\* character with warn_after 2 and fail_after 4.
FourFails ==
  /\ eng.on
  /\ Get(CHARACTERS[eng.character], "thresholds", DefaultThresholds)
       = [warn_after |-> 2, fail_after |-> 4]
  /\ Len(eng.calls) >= 4
  /\ \A i \in 1..4 : eng.calls[i].has_fail /\ ~eng.calls[i].has_success

\* C9 (as stated): with warn_after 2 and fail_after 4, four consecutive
\* Fail-classified messages on a fresh session leave wrong_count 4 and
\* logo_stage 3; the first three outcomes are "neutral", the fourth "fail".
C9_FourFailsStageThree ==
  FourFails =>
    /\ eng.calls[4].after.wrong_count = 4
    /\ eng.calls[4].after.logo_stage = 3
    /\ \A i \in 1..3 : eng.calls[i].outcome = "neutral"
    /\ eng.calls[4].outcome = "fail"

\* C9 (amended): with warn_after 2 and fail_after 4, four consecutive
\* Fail-classified messages given to decide_outcome_and_update on a fresh
\* session leave wrong_count 4 and logo_stage 5; the first three outcomes are
\* "neutral", the fourth "fail".
C9_FourFailsStageFive ==
  FourFails =>
    /\ eng.calls[4].after.wrong_count = 4
    /\ eng.calls[4].after.logo_stage = 5
    /\ \A i \in 1..3 : eng.calls[i].outcome = "neutral"
    /\ eng.calls[4].outcome = "fail"

C9_Witness == FourFails /\ Len(eng.calls) = 4

\* The message of request r holds a success keyword and a fail keyword of its
\* character.
BothKeywords(r) ==
  LET rules == Get(CHARACTERS[loc[r].character], "intent_rules", <<>>)
  IN  /\ contains_any(loc[r].user_message, Get(rules, "success_keywords", <<>>))
      /\ contains_any(loc[r].user_message, Get(rules, "fail_keywords", <<>>))

\* C10: a message holding both a success keyword and a fail keyword is
\* treated as Success: chat lowers trust_score by 20, and the engine, given
\* that session and message, answers "success" without taking the fail branch.
C10_SuccessWinsTie ==
  \A r \in Slots :
    (Accepted(r) /\ pc[r] # "read" /\ BothKeywords(r)) =>
      LET l == loc[r]
          s == session_state[l.session_id]
      IN  /\ s.trust_score = Get(StartSession(r), "trust_score", 0) - 20
          /\ l.trust_score = s.trust_score
          /\ \A fb \in BOOLEAN :
               LET res == decide_outcome_and_update(s, CHARACTERS[l.character],
                                                    l.user_message, fb)
               IN  /\ res.outcome = "success"
                   /\ res.session.wrong_count <= s.wrong_count
                   /\ res.session.logo_stage = 1

C10_Witness ==
  \E r \in Slots :
    /\ Accepted(r) /\ pc[r] = "done" /\ BothKeywords(r)
    /\ resp[r].status = 200
    /\ resp[r].body.trust_score = 0 - 40

\* A chat request whose handler has the reply of generate_ai_response.
Replied(r) == Accepted(r) /\ pc[r] \in {"replied", "done"}

\* C11: on one session, without reset or rebinding, trust_score is 20 times
\* the Fail-classified chats minus 20 times the Success-classified chats,
\* starting from 0; a Neutral message leaves it unchanged and no clamp is
\* applied, so n Fail (Success) messages alone give +20n (-20n).
C11_TrustIsSumOfSteps ==
  \A r \in Slots :
    (Accepted(r) /\ pc[r] # "read") =>
      LET l == loc[r]
          s == session_state[l.session_id]
          h == hist[l.session_id]
          d == TrustDelta(CHARACTERS[l.character], l.user_message)
      IN  /\ s.trust_score = 20 * h.fail - 20 * h.success
          /\ l.trust_score = s.trust_score
          /\ d = 0 => s.trust_score = Get(StartSession(r), "trust_score", 0)
          /\ h.success = 0 => s.trust_score = 20 * h.fail
          /\ h.fail = 0 => s.trust_score = 0 - 20 * h.success

C11_Witness ==
  /\ \E r \in Slots : pc[r] = "done" /\ Accepted(r)
  /\ \E sid \in DOMAIN session_state :
       /\ hist[sid].fail >= 2 /\ hist[sid].success = 0
       /\ session_state[sid].trust_score = 20 * hist[sid].fail
  /\ \E sid \in DOMAIN session_state :
       /\ hist[sid].success >= 2 /\ hist[sid].fail = 0
       /\ session_state[sid].trust_score = 0 - 20 * hist[sid].success

\* C12: without a client no chat request attempts the model call and every
\* reply is the demo-mode text of its character; whether a client exists
\* never changes.
C12_DemoModeNeverCalls ==
  /\ [](~client =>
          \A r \in Slots :
            Replied(r) =>
              /\ loc[r].result = NotCalled
              /\ loc[r].reply_text.kind = "demo"
              /\ loc[r].reply_text
                   = get_demo_mode_response(loc[r].character, loc[r].user_message)
              /\ pc[r] = "done" =>
                   /\ resp[r].status = 200
                   /\ resp[r].body.reply = loc[r].reply_text)
  /\ [][client' = client]_vars

C12_Witness ==
  /\ ~client
  /\ \E r \in Slots :
       /\ Replied(r) /\ pc[r] = "done"
       /\ loc[r].character = maya
       /\ resp[r].body.reply.kind = "demo"
       /\ resp[r].body.reply.echo = loc[r].user_message
  /\ \E sid \in DOMAIN session_state : hist[sid].fail + hist[sid].success >= 2

\* The model call returned a completion without text.
NoContent(result) == result = [raised |-> FALSE, content |-> NoneReply]

ErrorFallbackKinds == {"rate_limit", "connection", "invalid_request", "generic"}

IsRateLimit(e) == IsSubstring(rate_limit, e) \/ IsSubstring(<<"4", "2", "9">>, e)
IsConnection(e) == IsSubstring(timeout, e) \/ IsSubstring(connection, e)
IsInvalid(e) == IsSubstring(invalid, e) \/ IsSubstring(<<"4", "0", "0">>, e)

\* C14: a failed model call gets exactly one fallback category, the earliest
\* in the order rate-limit, connection/timeout, invalid-request whose rule
\* matches the lowercased error text, and unknown/generic when none matches.
C14_ErrorCategoryOrder ==
  \A r \in Slots :
    (Replied(r) /\ loc[r].result # NotCalled /\ loc[r].result.raised) =>
      LET e == lower(loc[r].result.error)
          kind == loc[r].reply_text.kind
      IN  /\ kind \in ErrorFallbackKinds
          /\ kind = "rate_limit" <=> IsRateLimit(e)
          /\ kind = "connection" <=> (IsConnection(e) /\ ~IsRateLimit(e))
          /\ kind = "invalid_request" <=>
               (IsInvalid(e) /\ ~IsConnection(e) /\ ~IsRateLimit(e))
          /\ kind = "generic" <=> ~(IsInvalid(e) \/ IsConnection(e) \/ IsRateLimit(e))

C14_Witness ==
  \E r \in Slots :
    /\ Replied(r) /\ loc[r].result # NotCalled /\ loc[r].result.raised
    /\ IsRateLimit(lower(loc[r].result.error))
    /\ IsConnection(lower(loc[r].result.error))
    /\ loc[r].reply_text.kind = "rate_limit"

\* s starts with the first n characters of t (all of t when t is shorter).
IsPrefixOfLength(s, t, n) ==
  /\ Len(s) = (IF Len(t) < n THEN Len(t) ELSE n)
  /\ \A i \in 1..Len(s) : s[i] = t[i]

\* C15 (as stated): every canned fallback reply, for each of the five kinds
\* and every character identifier, contains a prefix of the user's message;
\* for maya the rate-limit reply contains the first 30 characters and differs
\* from the connection/timeout reply for the same message.
C15_EveryFallbackEchoes ==
  \A r \in Slots :
    (Replied(r) /\ loc[r].reply_text.kind \in FallbackKinds) =>
      LET reply == loc[r].reply_text
          msg == loc[r].user_message
      IN  /\ reply.echo # <<>>
          /\ \E n \in 1..Len(msg) : IsPrefixOfLength(reply.echo, msg, n)
          /\ (loc[r].character = maya /\ reply.kind = "rate_limit") =>
               /\ IsPrefixOfLength(reply.echo, msg, 30)
               /\ reply # get_connection_fallback(maya, msg)

\* C15 (amended): for maya, eli and stanley every canned fallback reply quotes
\* the first 30 characters of the user's message (the first 50 in demo mode);
\* for any other character identifier the reply is the fixed generic text of
\* its kind and quotes nothing; for maya the rate-limit reply differs from the
\* connection/timeout reply for the same message.
C15_NamedFallbacksEcho ==
  \A r \in Slots :
    (Replied(r) /\ loc[r].reply_text.kind \in FallbackKinds) =>
      LET reply == loc[r].reply_text
          msg == loc[r].user_message
      IN  /\ loc[r].character \in {maya, eli, stanley} =>
               /\ reply.who = loc[r].character
               /\ reply.echo # <<>>
               /\ IsPrefixOfLength(reply.echo, msg,
                                   IF reply.kind = "demo" THEN 50 ELSE 30)
          /\ loc[r].character \notin {maya, eli, stanley} =>
               reply.who = <<>> /\ reply.echo = <<>>
          /\ (loc[r].character = maya /\ reply.kind = "rate_limit") =>
               reply # get_connection_fallback(maya, msg)

C15_Witness ==
  \E r \in Slots :
    /\ Replied(r)
    /\ loc[r].character = maya
    /\ loc[r].reply_text.kind = "rate_limit"
    /\ Len(loc[r].user_message) = 60
    /\ Len(loc[r].reply_text.echo) = 30

\* C16: within a chat request the trust_score transition is in the session
\* store before the generation call starts, and the generation call changes
\* no session.
C16_CommitBeforeGenerate ==
  [][\A r \in Slots :
       (Accepted(r) /\ pc[r] = "generating") =>
         LET l == loc[r]
         IN  /\ l.session_id \in DOMAIN session_state
             /\ "trust_score" \in DOMAIN session_state[l.session_id]
             /\ session_state[l.session_id].trust_score
                  = Get(StartSession(r), "trust_score", 0)
                      + TrustDelta(CHARACTERS[l.character], l.user_message)
             /\ pc'[r] = "replied" => session_state' = session_state]_vars

C16_Witness ==
  \E r \in Slots :
    /\ Replied(r) /\ pc[r] = "replied"
    /\ loc[r].reply_text.kind \in ErrorFallbackKinds
    /\ loc[r].prior = NoSession
    /\ session_state[loc[r].session_id].trust_score = 20

\* C17: a chat request that ends in the last-resort reply leaves the session
\* store as it was before the request: no session created, no trust_score
\* change.
C17_FaultLeavesStoreUntouched ==
  \A r \in Slots :
    (Answered(r) /\ "error" \in DOMAIN resp[r].body) =>
      IF loc[r].prior = NoSession
      THEN loc[r].session_id \notin DOMAIN session_state
      ELSE /\ loc[r].session_id \in DOMAIN session_state
           /\ session_state[loc[r].session_id] = loc[r].prior

\* C18: a chat request with an unknown or empty character, an empty message
\* after trimming or a message longer than 1000 characters is answered with a
\* client error, the session store is unchanged and no model call is made:
\* only requests with a catalog character and a message of 1 to 1000
\* characters get a session and reach the generation call.
C18_InvalidRequestsRejected ==
  /\ [](\A r \in Slots :
          /\ pc[r] \in {"read", "generating", "replied"} => Accepted(r)
          /\ Accepted(r) =>
               /\ loc[r].character \in DOMAIN CHARACTERS
               /\ loc[r].user_message # <<>>
               /\ Len(loc[r].user_message) <= 1000
          /\ (pc[r] = "done" /\ loc[r].op = "chat" /\ loc[r].rejected) =>
               /\ resp[r].status = 400
               /\ \/ strip(lower(loc[r].req.character)) \notin DOMAIN CHARACTERS
                  \/ strip(loc[r].req.message) = <<>>
                  \/ Len(strip(loc[r].req.message)) > 1000)
  /\ [][\A r \in Slots :
          (pc[r] = "idle" /\ pc'[r] = "done" /\ loc'[r].op = "chat") =>
            /\ loc'[r].rejected
            /\ session_state' = session_state]_vars

C18_Witness ==
  \E r \in Slots :
    /\ pc[r] = "done" /\ loc[r].op = "chat" /\ loc[r].rejected
    /\ Len(strip(loc[r].req.message)) > 1000
    /\ strip(lower(loc[r].req.character)) = maya
    /\ resp[r].status = 400
    /\ DOMAIN session_state # {}

\* C19: a session is created once: a chat request that finds its session id
\* bound to its character keeps the stored session, a request that creates
\* the session does so while no other request is working on that id, and the
\* session a request updates is the one in the store.
C19_SessionCreatedOnce ==
  /\ [](\A r \in Slots :
          Accepted(r) =>
            /\ loc[r].session_id \in DOMAIN session_state
            /\ session_state[loc[r].session_id].character = loc[r].character)
  /\ [][\A r \in Slots :
          (pc[r] = "idle" /\ pc'[r] = "read") =>
            LET sid == loc'[r].session_id
            IN  /\ (sid \in DOMAIN session_state
                      /\ session_state[sid].character = loc'[r].character) =>
                     session_state' = session_state
                /\ sid \notin DOMAIN session_state =>
                     /\ session_state'[sid] = FreshSession(loc'[r].character)
                     /\ \A r2 \in Slots \ {r} :
                          (Accepted(r2) /\ pc[r2] # "done") =>
                            loc[r2].session_id # sid]_vars

C19_Witness ==
  \E r \in Slots :
    /\ Accepted(r) /\ pc[r] = "read"
    /\ loc[r].prior # NoSession
    /\ loc[r].prior.character = loc[r].character
    /\ Get(loc[r].prior, "trust_score", 0) = 20
    /\ session_state[loc[r].session_id] = loc[r].prior

\* C20: while the generation call of a chat request on one session is in
\* flight, a reset and a chat on another session can start; and a chat
\* request changes no other session.
C20_OtherSessionsProceed ==
  \A r \in Slots :
    (client /\ Accepted(r) /\ pc[r] = "generating") =>
      \A r2 \in Slots \ {r} :
        pc[r2] = "idle" =>
          /\ ENABLED (\E sid \in ResetSidInputs \ {"", loc[r].session_id} :
                        Reset(r2, sid))
          /\ ENABLED (\E sid \in SidInputs :
                        /\ ChatSessionId([sessionId |-> sid]) # loc[r].session_id
                        /\ ChatBegin(r2, [character |-> maya,
                                          message |-> <<"h", "i">>,
                                          sessionId |-> sid]))

\* C21: in every reachable state the character of every session in the store
\* is a key of the catalog, and no step changes the catalog.
C21_SessionsBoundToCatalog ==
  /\ [](\A sid \in DOMAIN session_state :
          session_state[sid].character \in DOMAIN CHARACTERS)
  /\ [][CHARACTERS' = CHARACTERS]_vars

C21_Witness ==
  /\ {session_state[sid].character : sid \in DOMAIN session_state}
       = {maya, global_knowledge}
  /\ \E r \in Slots : Rebound(r)

\* What every handler answers when the catalog is empty, apart from the
\* detail of a rejected chat.
EmptyCatalogServes ==
  /\ session_state = <<>>
  /\ running = 0 =>
       /\ ENABLED (\E r \in Slots, sid \in ResetSidInputs : Reset(r, sid))
       /\ ENABLED (\E r \in Slots : ListCharacters(r))
       /\ ENABLED (\E r \in Slots, req \in ChatRequests : ChatReject(r, req))
  /\ \A r \in Slots :
       /\ pc[r] \in {"idle", "done"}
       /\ pc[r] = "done" =>
            /\ resp[r].status \in {200, 400, 503}
            /\ loc[r].op = "chat" => loc[r].rejected /\ resp[r].status = 400
            /\ loc[r].op = "characters" => resp[r].status = 503
            /\ loc[r].op = "reset" =>
                 IF loc[r].sessionId # "" /\ Len(loc[r].sessionId) <= 100
                 THEN /\ resp[r].status = 200
                      /\ resp[r].body.ok
                      /\ ~resp[r].body.session_existed
                 ELSE resp[r].status = 400

\* C22 (as stated): with an empty catalog every chat request is rejected as
\* an unknown-character client error without creating a session, the
\* character listing answers with an error status, reset still works and no
\* operation crashes.
C22_EmptyCatalogRejectsAsUnknown ==
  CHARACTERS = <<>> =>
    /\ EmptyCatalogServes
    /\ \A r \in Slots :
         (pc[r] = "done" /\ loc[r].op = "chat") =>
           resp[r].detail = "Unknown character"

\* C22 (amended): with an empty catalog every chat request is rejected with
\* a client error without creating a session - "Unknown character" when the
\* request names a character, "Character is required" when its character
\* field is empty after trimming -, the character listing answers with an
\* error status, reset still works and no operation crashes.
C22_EmptyCatalogKeepsServing ==
  CHARACTERS = <<>> =>
    /\ EmptyCatalogServes
    /\ \A r \in Slots :
         (pc[r] = "done" /\ loc[r].op = "chat") =>
           resp[r].detail = IF strip(lower(loc[r].req.character)) = <<>>
                            THEN "Character is required"
                            ELSE "Unknown character"

C22_Witness ==
  /\ CHARACTERS = <<>>
  /\ \E r \in Slots :
       /\ pc[r] = "done" /\ loc[r].op = "chat" /\ loc[r].rejected
       /\ loc[r].req.character = maya
       /\ loc[r].req.message = <<"h", "i">>
       /\ resp[r].status = 400
       /\ resp[r].detail = "Unknown character"

\* The thresholds decide_outcome_and_update reads for the harness character.
EngineThresholds ==
  Get(CHARACTERS[eng.character], "thresholds", DefaultThresholds)

\* Call i of the harness was Fail-classified: a fail keyword and no success
\* keyword.
FailCall(i) == eng.calls[i].has_fail /\ ~eng.calls[i].has_success

\* C23: on a Fail classification the engine sets wrong_count to
\* wrong_count+1 and logo_stage to min(5, stage+1) whatever warn_after is,
\* and answers "fail" exactly when the incremented wrong_count is >=
\* fail_after, else "neutral"; with fail_after 1 the first Fail message on a
\* fresh session answers "fail".
C23_FailStep ==
  eng.on =>
    \A i \in 1..Len(eng.calls) :
      FailCall(i) =>
        LET c == eng.calls[i]
        IN  /\ c.after.wrong_count = c.before.wrong_count + 1
            /\ c.after.logo_stage
                 = (IF c.before.logo_stage + 1 > 5 THEN 5 ELSE c.before.logo_stage + 1)
            /\ c.after.character = c.before.character
            /\ c.outcome \in {"fail", "neutral"}
            /\ c.outcome = "fail" <=> c.after.wrong_count >= EngineThresholds.fail_after
            /\ (i = 1 /\ EngineThresholds.fail_after = 1) => c.outcome = "fail"

C23_Witness ==
  /\ eng.on
  /\ EngineThresholds = [warn_after |-> 1, fail_after |-> 1]
  /\ Len(eng.calls) >= 1
  /\ FailCall(1)
  /\ eng.calls[1].before = FreshSession(eng.character)
  /\ eng.calls[1].after.wrong_count = 1
  /\ eng.calls[1].after.logo_stage = 2
  /\ eng.calls[1].outcome = "fail"

\* C24: on a Success classification the engine sets wrong_count to
\* max(0, wrong_count-1) - one less, not 0: 3 becomes 2 -, sets logo_stage to
\* 1 and answers "success", whatever the thresholds and the fallback flag.
C24_SuccessStep ==
  eng.on =>
    \A i \in 1..Len(eng.calls) :
      eng.calls[i].has_success =>
        LET c == eng.calls[i]
        IN  /\ c.after.wrong_count
                 = (IF c.before.wrong_count = 0 THEN 0 ELSE c.before.wrong_count - 1)
            /\ c.after.logo_stage = 1
            /\ c.after.character = c.before.character
            /\ c.outcome = "success"

C24_Witness ==
  /\ eng.on
  /\ \E i, j \in 1..Len(eng.calls) :
       /\ eng.calls[i].has_success /\ eng.calls[i].used_ai_fallback
       /\ eng.calls[i].before.wrong_count = 3
       /\ eng.calls[i].before.logo_stage = 4
       /\ eng.calls[i].after.wrong_count = 2
       /\ eng.calls[j].has_success /\ ~eng.calls[j].used_ai_fallback
       /\ eng.calls[j].before.wrong_count = 2
       /\ eng.calls[j].after.wrong_count = 1

\* Call i of the harness was Neutral-classified: no success keyword and no
\* fail keyword.
NeutralCall(i) == ~eng.calls[i].has_success /\ ~eng.calls[i].has_fail

\* C25: on a Neutral classification with the fallback flag set the engine
\* adds 1 to wrong_count, raises logo_stage by one (capped at 5) only when
\* the incremented wrong_count is >= warn_after and otherwise leaves it, and
\* answers "fail" exactly when the incremented wrong_count is >= fail_after,
\* else "neutral".
C25_NeutralFallbackStep ==
  eng.on =>
    \A i \in 1..Len(eng.calls) :
      (NeutralCall(i) /\ eng.calls[i].used_ai_fallback) =>
        LET c == eng.calls[i]
            n == c.before.wrong_count + 1
        IN  /\ c.after.wrong_count = n
            /\ c.after.logo_stage
                 = (IF n >= EngineThresholds.warn_after
                    THEN (IF c.before.logo_stage + 1 > 5 THEN 5 ELSE c.before.logo_stage + 1)
                    ELSE c.before.logo_stage)
            /\ c.after.character = c.before.character
            /\ c.outcome \in {"fail", "neutral"}
            /\ c.outcome = "fail" <=> n >= EngineThresholds.fail_after

C25_Witness ==
  /\ eng.on
  /\ EngineThresholds = [warn_after |-> 2, fail_after |-> 4]
  /\ Len(eng.calls) >= 4
  /\ \A i \in 1..4 : NeutralCall(i) /\ eng.calls[i].used_ai_fallback
  /\ eng.calls[1].after.logo_stage = 1
  /\ eng.calls[2].after.logo_stage = 2
  /\ eng.calls[3].outcome = "neutral"
  /\ eng.calls[4].outcome = "fail"
  /\ eng.calls[4].after.logo_stage = 4

\* C26: a Neutral-classified message without the fallback flag changes
\* nothing in the session - wrong_count, logo_stage, trust_score and the bound
\* character stay as they were - and the outcome is "neutral", even when
\* wrong_count is already >= fail_after.
C26_NeutralLeavesSession ==
  eng.on =>
    \A i \in 1..Len(eng.calls) :
      (NeutralCall(i) /\ ~eng.calls[i].used_ai_fallback) =>
        LET c == eng.calls[i]
        IN  /\ c.after = c.before
            /\ c.outcome = "neutral"
            /\ \A t \in TrustValues :
                 /\ c.with_trust[t].session = Put(c.before, "trust_score", t)
                 /\ c.with_trust[t].outcome = "neutral"

C26_Witness ==
  /\ eng.on
  /\ \E i \in 1..Len(eng.calls) :
       /\ NeutralCall(i) /\ ~eng.calls[i].used_ai_fallback
       /\ eng.calls[i].before.wrong_count > EngineThresholds.fail_after
       /\ eng.calls[i].before.logo_stage = 3
       /\ eng.calls[i].after = eng.calls[i].before
       /\ eng.calls[i].outcome = "neutral"

\* C27: persona selection and the escalation state machine are independent.
\* For the same message and flag the engine leaves the same wrong_count and
\* logo_stage and gives the same outcome on sessions that differ only in
\* trust_score, and leaves trust_score as it was; the trust_score chat reads
\* from a session, and the persona it selects from it, are the same whatever
\* the session's wrong_count and logo_stage.
C27_TrustAndEscalationIndependent ==
  eng.on =>
    /\ \A i \in 1..Len(eng.calls) :
         \A t \in TrustValues :
           LET c == eng.calls[i]
               w == c.with_trust[t]
           IN  /\ w.outcome = c.outcome
               /\ w.session.wrong_count = c.after.wrong_count
               /\ w.session.logo_stage = c.after.logo_stage
               /\ w.session.trust_score = t
               /\ ~("trust_score" \in DOMAIN c.after)
    /\ \A t \in TrustValues :
         LET here == Get(Put(eng.session, "trust_score", t), "trust_score", 0)
             fresh == Get(Put(FreshSession(eng.character), "trust_score", t),
                          "trust_score", 0)
         IN  /\ here = fresh
             /\ SelectPersona(here) = SelectPersona(fresh)
    /\ Get(eng.session, "trust_score", 0)
         = Get(FreshSession(eng.character), "trust_score", 0)

C27_Witness ==
  /\ eng.on
  /\ eng.session.logo_stage = 5
  /\ \E i \in 1..Len(eng.calls) :
       /\ FailCall(i)
       /\ eng.calls[i].outcome = "fail"
       /\ eng.calls[i].with_trust[40].outcome = "fail"
       /\ eng.calls[i].with_trust[40].session.wrong_count = 4
       /\ eng.calls[i].with_trust[0 - 20].session.wrong_count = 4
       /\ eng.calls[i].after.wrong_count = 4

\* C28: the trust_score of every chat response equals the trust_score stored
\* in the request's session when the response is produced, the last-resort
\* fallback response included.
C28_ReportedTrustIsStoredTrust ==
  \A r \in Slots :
    Answered(r) =>
      /\ loc[r].session_id \in DOMAIN session_state
      /\ resp[r].body.trust_score
           = Get(session_state[loc[r].session_id], "trust_score", 0)

\* C29: every session a chat request has created can be removed by a reset
\* with the same sessionId: whenever the server is free to take a request, a
\* reset of any stored session id is answered by removing that session.
C29_StoredSessionsCanBeReset ==
  running = 0 =>
    \A sid \in DOMAIN session_state :
      ENABLED (\E r \in Slots :
                 /\ Reset(r, sid)
                 /\ resp'[r].status = 200
                 /\ sid \notin DOMAIN session_state')

\* C30: character identifiers are compared after lowercasing and trimming: a
\* chat request whose character field differs from a catalog key only in
\* letter case or surrounding whitespace is accepted and bound to that key,
\* and when its sessionId is already bound to that key the request does not
\* reset the session: it starts from the stored session and its counters.
C30_CharacterNormalised ==
  \A r \in Slots :
    (/\ pc[r] # "idle" /\ loc[r].op = "chat"
     /\ strip(lower(loc[r].req.character)) \in DOMAIN CHARACTERS
     /\ strip(loc[r].req.message) # <<>>
     /\ Len(strip(loc[r].req.message)) <= 1000) =>
      LET l == loc[r]
          key == strip(lower(l.req.character))
      IN  /\ ~l.rejected
          /\ l.character = key
          /\ session_state[l.session_id].character = key
          /\ (l.prior # NoSession /\ l.prior.character = key) =>
               /\ session_state[l.session_id].wrong_count = l.prior.wrong_count
               /\ session_state[l.session_id].logo_stage = l.prior.logo_stage
               /\ pc[r] = "read" =>
                    /\ session_state[l.session_id] = l.prior
                    /\ l.trust_score = Get(l.prior, "trust_score", 0)
               /\ pc[r] # "read" =>
                    session_state[l.session_id].trust_score
                      = Get(l.prior, "trust_score", 0)
                          + TrustDelta(CHARACTERS[key], l.user_message)

C30_Witness ==
  \E r \in Slots :
    /\ Accepted(r) /\ pc[r] = "done"
    /\ loc[r].req.character = <<" ", "M", "a", "y", "a", " ">>
    /\ loc[r].prior # NoSession
    /\ loc[r].prior.character = maya
    /\ loc[r].prior.trust_score = 20
    /\ session_state[loc[r].session_id].trust_score = 40

====
